---- MODULE Spec2Model ----
(***************************************************************************)
(* Model of releng's BuildEnvironment (src/releng/environment.py): the     *)
(* option handlers that resolve a toolchain on one build node, and the     *)
(* version ordering they rest on.                                          *)
(*                                                                         *)
(* A Python string is a sequence of chunks (TLA+ strings); '+' is \o.      *)
(* Version strings, directory names and paths are cut into chunks at every *)
(* character the code splits on ('.', '-', the path separator), so that    *)
(* split(), dirname() and int() are computed, not looked up.               *)
(***************************************************************************)
EXTENDS Integers, Sequences, FiniteSets, TLC

VARIABLES
    system,       \* factory.system: operating system of the node
    default_gcc,  \* slaves.get_default_gcc_for_libstdcxx(node)
    missing,      \* executable names find_executable does not locate
    cmake_active, \* version the bare 'cmake' on PATH reports
    cmake_dirs,   \* the CMake base directory: dir name -> what it holds
    self,         \* the BuildEnvironment attributes
    env,          \* the command runner's environment variables
    imported,     \* environment-dump commands given to import_env
    queries,      \* look-ups made on the node: cmake version, listdir, find_executable
    assigned,     \* every value assigned to self.cmake_version, in order
    last,         \* the handler call that produced this state
    calls,        \* number of handler calls so far
    older,        \* version ordering: first operand
    newer,        \* version ordering: second operand
    other,        \* version ordering: third operand
    verdict,      \* version ordering: results of the comparisons
    fs,           \* the file system below the workspace: path -> node
    console,      \* lines printed to sys.stdout
    dry_run       \* whether the executor is the DryRunExecutor

worldVars == <<system, default_gcc, missing, cmake_active, cmake_dirs>>
machineVars == <<self, env, imported, queries, assigned>>
orderVars == <<older, newer, other, verdict>>
execVars == <<fs, console, dry_run>>
vars == <<worldVars, machineVars, last, calls, orderVars, execVars>>

-----------------------------------------------------------------------------
(* Python values *)

\* Python's None where a string is expected (no string holds this chunk).
None == <<"<None>">>

\* Truthiness of an optional string: None and '' are false.
Truthy(s) == s # None /\ s # <<>>

\* The exceptions a handler call can end with.
NoError == "none"
ConfigurationError == "ConfigurationError"
ValueError == "ValueError"
TypeError == "TypeError"

\* System and Compiler enumerations (common.py); NoCompiler is None.
LINUX == "LINUX"
WINDOWS == "WINDOWS"
OSX == "OSX"
GCC == "GCC"
CLANG == "CLANG"
INTEL == "INTEL"
MSVC == "MSVC"
NoCompiler == "None"

-----------------------------------------------------------------------------
(* Version ordering *)

DigitChars == <<"0", "1", "2", "3", "4", "5", "6", "7", "8", "9">>

IsDigit(c) == \E i \in 1..10 : DigitChars[i] = c

DigitVal(c) == (CHOOSE i \in 1..10 : DigitChars[i] = c) - 1

\* str.split(sep): the pieces between the separator chunks (always at
\* least one piece, possibly empty).
RECURSIVE Split(_, _)
Split(s, sep) ==
    IF \A i \in 1..Len(s) : s[i] # sep
    THEN <<s>>
    ELSE LET k == CHOOSE i \in 1..Len(s) :
                      s[i] = sep /\ \A j \in 1..(i - 1) : s[j] # sep
         IN  <<SubSeq(s, 1, k - 1)>> \o Split(SubSeq(s, k + 1, Len(s)), sep)

\* int(x) accepts a non-empty run of decimal digits.
IsInt(x) == Len(x) > 0 /\ \A i \in 1..Len(x) : IsDigit(x[i])

RECURSIVE ToInt(_)
ToInt(x) ==
    IF Len(x) = 1
    THEN DigitVal(x[1])
    ELSE 10 * ToInt(SubSeq(x, 1, Len(x) - 1)) + DigitVal(x[Len(x)])

\* Whether _to_version_tuple raises ValueError on this string.
Malformed(version_string) ==
    LET parts == Split(version_string, ".")
    IN  \E i \in 1..Len(parts) : ~IsInt(parts[i])

_to_version_tuple(version_string) ==
    LET parts == Split(version_string, ".")
    IN  [i \in 1..Len(parts) |-> ToInt(parts[i])]

\* Python's list '<': decided at the first index where the lists differ,
\* else by length.
RECURSIVE ListLess(_, _)
ListLess(a, b) ==
    IF a = <<>> THEN b # <<>>
    ELSE IF b = <<>> THEN FALSE
    ELSE IF a[1] # b[1] THEN a[1] < b[1]
    ELSE ListLess(Tail(a), Tail(b))

\* Whether _is_older_version(a, b) raises ValueError.
OlderRaises(a, b) == Malformed(a) \/ Malformed(b)

\* A comparison of the two strings as text, character by character
\* ('.' sorts before every digit), in place of the integer tuples.
CharCode(c) == IF c = "." THEN 46 ELSE 48 + DigitVal(c)

_is_older_version_as_text(a, b) ==
    ListLess([i \in 1..Len(a) |-> CharCode(a[i])],
             [i \in 1..Len(b) |-> CharCode(b[i])])

_is_older_version(a, b) ==
    ListLess(_to_version_tuple(a), _to_version_tuple(b))

-----------------------------------------------------------------------------
(* Paths and the node's file system *)

\* os.sep of the node.
PathSep == IF system = WINDOWS THEN "\\" ELSE "/"

\* os.path.join of two relative-or-absolute pieces (the second relative).
Join(a, b) == a \o <<PathSep>> \o b

\* os.path.dirname: what precedes the last separator.
Dirname(p) ==
    LET k == CHOOSE i \in 1..Len(p) :
                 p[i] = PathSep /\ \A j \in (i + 1)..Len(p) : p[j] # PathSep
    IN  SubSeq(p, 1, k - 1)

\* os.path.expanduser: '~' is the home directory of the build account.
Home == <<"/", "home", "/", "jenkins">>
ExpandUser(rest) == Home \o rest

\* find_executable of the command runner: the absolute path of the named
\* executable, each toolchain in a directory of its own, or None.
FindExecutable(name) ==
    IF name \in missing
    THEN None
    ELSE <<PathSep, "opt", PathSep>> \o name \o <<PathSep, "bin", PathSep>> \o name

\* Directory names the CMake base directory may hold.
Dir_cmake_3_10 == <<"cmake", "-", "3", ".", "1", "0">>
Dir_cmake_3_12 == <<"cmake", "-", "3", ".", "1", "2">>
Dir_3_14 == <<"3", ".", "1", "4">>
CMakeDirNames == {Dir_cmake_3_10, Dir_cmake_3_12, Dir_3_14}

\* What a name of the base directory holds: nothing ("absent": no such
\* directory, or one without bin/), a bin/ without the cmake binary
\* ("nobinary"), or a bin/ with the binaries ("cmake").
DirStates == {"absent", "nobinary", "cmake"}

\* The platform's CMake base directory (_init_system).
CMakeBaseDir ==
    IF system = WINDOWS
    THEN <<"c:", "\\", "utils">>
    ELSE <<"/", "opt", "/", "cmake">>

\* The path _get_available_cmake_versions tests for a directory name.
ScanCommand(base, cmake_dir) ==
    LET cmd == Join(Join(Join(base, cmake_dir), <<"bin">>), <<"cmake">>)
    IN  IF system = WINDOWS /\ cmd[Len(cmd)] # ".exe"
        THEN cmd \o <<".exe">>
        ELSE cmd

\* os.path.exists of a directory <base>/<name>/bin.
BinDirExists(base, name) ==
    \E d \in CMakeDirNames :
        /\ cmake_dirs[d] # "absent"
        /\ Join(Join(base, name), <<"bin">>) = Join(Join(base, d), <<"bin">>)

\* os.path.isfile of a path: the cmake binaries of the installed
\* distributions ('cmake.exe' on Windows).
IsFile(path) ==
    \E d \in CMakeDirNames :
        /\ cmake_dirs[d] = "cmake"
        /\ path = Join(Join(Join(CMakeBaseDir, d), <<"bin">>),
                       IF system = WINDOWS THEN <<"cmake", ".exe">> ELSE <<"cmake">>)

\* cmake.get_cmake_version: the version the given cmake command reports.
GetCmakeVersion(cmake_command) ==
    IF cmake_command = <<"cmake">>
    THEN cmake_active
    ELSE LET d == Dirname(Dirname(cmake_command))
             name == SubSeq(d, Len(CMakeBaseDir) + 2, Len(d))
             parts == Split(name, "-")
         IN  parts[Len(parts)]

-----------------------------------------------------------------------------
(* The machine: BuildEnvironment attributes, environment, imported scripts *)

OptionKeys == {"CMAKE_CXX_LINK_FLAGS", "CMAKE_EXE_LINKER_FLAGS",
               "GMX_STDLIB_CXX_FLAGS", "GMX_STDLIB_LIBRARIES",
               "CMAKE_PREFIX_PATH"}

EnvNames == {"PATH", "CMAKE_PREFIX_PATH", "CFLAGS", "CXXFLAGS",
             "ASAN_SYMBOLIZER_PATH", "LD_LIBRARY_PATH", "CMAKE_LIBRARY_PATH",
             "OMPI_CC", "OMPI_CXX", "CCC_CC", "CCC_CXX"}

\* A machine state m holds the attributes, the environment and the record
\* of what was asked of the node; a handler maps it to a result
\* [m, raised], m being what the call left behind.
Machine(s, e, i, q, a) ==
    [self |-> s, env |-> e, imported |-> i, queries |-> q, assigned |-> a]
Ok(m) == [m |-> m, raised |-> NoError]
Raise(m, error) == [m |-> m, raised |-> error]

SetSelf(m, s) == [m EXCEPT !.self = s]

\* An assignment self.cmake_version = version.
SetCMakeVersion(m, version) ==
    [m EXCEPT !.self.cmake_version = version, !.assigned = Append(@, version)]

\* A look-up on the node.
Asked(m, what, subject) ==
    [m EXCEPT !.queries = Append(@, <<what>> \o subject)]

\* CommandRunner.set_env_var: a None value does nothing.
set_env_var(m, variable, value) ==
    IF value = None THEN m
    ELSE [m EXCEPT !.env[variable] = value]

\* CommandRunner.append_to_env_var: joins with a space when the variable
\* already holds something.
append_to_env_var(m, variable, value) ==
    IF Truthy(m.env[variable])
    THEN [m EXCEPT !.env[variable] = @ \o <<" ">> \o value]
    ELSE [m EXCEPT !.env[variable] = value]

\* CommandRunner.prepend_to_env_var with sep=os.pathsep.
prepend_path_env(e, path) ==
    IF Truthy(e["PATH"])
    THEN [e EXCEPT !["PATH"] = path \o <<IF system = WINDOWS THEN ";" ELSE ":">> \o @]
    ELSE [e EXCEPT !["PATH"] = path]

run_env_script(m, env_cmd) ==
    LET env_dump_cmd == env_cmd \o <<" && ">> \o m.self.cmake_command
                                \o <<" -E environment">>
    IN  [m EXCEPT !.imported = Append(@, env_dump_cmd)]

\* BuildEnvironment.__init__ followed by _init_system.
InitSelf ==
    [compiler |-> NoCompiler,
     compiler_version |-> None,
     c_compiler |-> None,
     cxx_compiler |-> None,
     gcov_command |-> None,
     cmake_command |-> <<"cmake">>,
     ctest_command |-> <<"ctest">>,
     cmake_version |-> None,
     cmake_generator |-> IF system = WINDOWS THEN <<"NMake Makefiles JOM">> ELSE None,
     cuda_root |-> None,
     cuda_host_compiler |-> None,
     amdappsdk_root |-> None,
     clang_analyzer_output_dir |-> None,
     extra_cmake_options |-> [k \in OptionKeys |-> None],
     _build_prefix_cmd |-> None,
     _cmake_base_dir |-> CMakeBaseDir]

\* The process environment the job starts with.
ProcessEnv == [v \in EnvNames |-> IF v = "PATH" THEN <<"/usr/bin">> ELSE None]

_init_system(e) ==
    IF system = WINDOWS
    THEN e
    ELSE LET e1 == prepend_path_env(e, ExpandUser(<<"/", "bin">>))
         IN  IF system = OSX
             THEN [e1 EXCEPT !["CMAKE_PREFIX_PATH"] = <<"/opt/local">>]
             ELSE e1

-----------------------------------------------------------------------------
(* CMake version selection *)

\* The handler taking ctest from the unprefixed directory whatever exists.
_init_cmake_ctest_unprefixed(m, version) ==
    LET base == m.self._cmake_base_dir
        versioned == <<"cmake", "-">> \o version
        cmake_bin_dir ==
            IF BinDirExists(base, versioned)
            THEN Join(Join(base, versioned), <<"bin">>)
            ELSE Join(Join(base, version), <<"bin">>)
    IN  SetCMakeVersion(
            SetSelf(m, [m.self EXCEPT
                          !.cmake_command = Join(cmake_bin_dir, <<"cmake">>),
                          !.ctest_command =
                              Join(Join(Join(base, version), <<"bin">>),
                                   <<"ctest">>)]),
            version)

_init_cmake(m, version) ==
    LET base == m.self._cmake_base_dir
        versioned == <<"cmake", "-">> \o version
        cmake_bin_dir ==
            IF BinDirExists(base, versioned)
            THEN Join(Join(base, versioned), <<"bin">>)
            ELSE Join(Join(base, version), <<"bin">>)
    IN  SetCMakeVersion(
            SetSelf(m, [m.self EXCEPT
                          !.cmake_command = Join(cmake_bin_dir, <<"cmake">>),
                          !.ctest_command = Join(cmake_bin_dir, <<"ctest">>)]),
            version)

\* The versions left in the order os.listdir gave them.
SortByVersion_unsorted(versions) == versions

\* list.sort(key=_to_version_tuple): stable, ascending.
RECURSIVE SortByVersion(_)
SortByVersion(versions) ==
    IF versions = <<>>
    THEN <<>>
    ELSE LET v == versions[Len(versions)]
             front == SortByVersion(SubSeq(versions, 1, Len(versions) - 1))
             k == Cardinality({i \in 1..Len(front) :
                                  ~_is_older_version(v, front[i])})
         IN  SubSeq(front, 1, k) \o <<v>> \o SubSeq(front, k + 1, Len(front))

\* The versions collected by the loop of _get_available_cmake_versions,
\* before the sort; listing is what os.listdir returned.
CollectedVersions(base, listing) ==
    LET keep == SelectSeq(listing, LAMBDA cmake_dir :
                    IsFile(ScanCommand(base, cmake_dir)))
    IN  [i \in 1..Len(keep) |->
            LET parts == Split(keep[i], "-") IN parts[Len(parts)]]

_get_available_cmake_versions(base, listing) ==
    SortByVersion(CollectedVersions(base, listing))

\* The loop leaving at the first version that is not older.
RECURSIVE ActivateEach_first_match(_, _, _)
ActivateEach_first_match(m, available_versions, version) ==
    IF available_versions = <<>>
    THEN m
    ELSE LET test_version == Head(available_versions)
         IN  IF ~_is_older_version(test_version, version)
             THEN _init_cmake(m, test_version)
             ELSE ActivateEach_first_match(m, Tail(available_versions), version)

\* The loop of _set_cmake_minimum_version over the available versions.
RECURSIVE ActivateEach(_, _, _)
ActivateEach(m, available_versions, version) ==
    IF available_versions = <<>>
    THEN m
    ELSE LET test_version == Head(available_versions)
             m1 == IF ~_is_older_version(test_version, version)
                   THEN _init_cmake(m, test_version)
                   ELSE m
         IN  ActivateEach(m1, Tail(available_versions), version)

\* The handler without the early return for a satisfied minimum.
_set_cmake_minimum_version_always_scans(m, version, listing) ==
    IF Truthy(m.self.cmake_version) \/ ~Truthy(version)
    THEN Ok(m)
    ELSE LET current_version == GetCmakeVersion(m.self.cmake_command)
             m1 == SetCMakeVersion(
                       Asked(m, "get_cmake_version", m.self.cmake_command),
                       current_version)
             m2 == Asked(m1, "listdir", m.self._cmake_base_dir)
         IN  IF OlderRaises(current_version, version)
             THEN Raise(m1, ValueError)
             ELSE Ok(ActivateEach(
                      m2,
                      _get_available_cmake_versions(m.self._cmake_base_dir, listing),
                      version))

\* The handler returning early only when no version is requested.
_set_cmake_minimum_version_rechecks(m, version, listing) ==
    IF ~Truthy(version)
    THEN Ok(m)
    ELSE LET current_version == GetCmakeVersion(m.self.cmake_command)
             m1 == SetCMakeVersion(
                       Asked(m, "get_cmake_version", m.self.cmake_command),
                       current_version)
             m2 == Asked(m1, "listdir", m.self._cmake_base_dir)
         IN  IF OlderRaises(current_version, version)
             THEN Raise(m1, ValueError)
             ELSE IF ~_is_older_version(current_version, version)
             THEN Ok(m1)
             ELSE Ok(ActivateEach(
                      m2,
                      _get_available_cmake_versions(m.self._cmake_base_dir, listing),
                      version))

_set_cmake_minimum_version(m, version, listing) ==
    IF Truthy(m.self.cmake_version) \/ ~Truthy(version)
    THEN Ok(m)
    ELSE LET current_version == GetCmakeVersion(m.self.cmake_command)
             m1 == SetCMakeVersion(
                       Asked(m, "get_cmake_version", m.self.cmake_command),
                       current_version)
             m2 == Asked(m1, "listdir", m.self._cmake_base_dir)
         IN  IF OlderRaises(current_version, version)
             THEN Raise(m1, ValueError)
             ELSE IF ~_is_older_version(current_version, version)
             THEN Ok(m1)
             ELSE LET collected == CollectedVersions(m.self._cmake_base_dir, listing)
                  IN  IF \E i \in 1..Len(collected) : Malformed(collected[i])
                      THEN Raise(m2, ValueError)
                      ELSE Ok(ActivateEach(
                               m2,
                               _get_available_cmake_versions(
                                   m.self._cmake_base_dir, listing),
                               version))

-----------------------------------------------------------------------------
(* Compiler selection *)

\* A str.format template with the one field {gcctoolchain}, as the pieces
\* around and between its occurrences; NoFormat is None.
NoFormat == <<>>
\* The template selectIntel passes, in place of selectClang's.
GccToolchainFlag_as_gcc_name == <<<<"-gcc-name=">>, <<"/", "bin", "/", "gcc">>>>

GccToolchainFlag == <<<<"--gcc-toolchain=">>, <<>>>>
GccNameFlag == <<<<"-gcc-name=">>, <<"/", "bin", "/", "gcc">>>>
LinkerFlags == <<<<"-Wl,-rpath,">>, <<"/lib64 -L">>, <<"/lib64">>>>

RECURSIVE Format(_, _)
Format(template, gcctoolchain) ==
    IF Len(template) = 1
    THEN template[1]
    ELSE template[1] \o gcctoolchain \o Format(Tail(template), gcctoolchain)

_manage_stdlib_from_gcc(m, format_for_stdlib_flag) ==
    LET gcc_name ==
            IF m.self.compiler = GCC THEN m.self.c_compiler
            ELSE IF m.self.compiler = CLANG \/ m.self.compiler = INTEL
            THEN default_gcc
            ELSE None
    IN  IF ~Truthy(gcc_name)
        THEN Ok(m)
        ELSE LET gcc_exe == FindExecutable(gcc_name)
                 m0 == Asked(m, "find_executable", gcc_name)
             IN  IF gcc_exe = None
                 THEN Raise(m0, TypeError)
                 ELSE LET gcc_exe_dirname == Dirname(gcc_exe)
                          gcc_toolchain_path == Join(gcc_exe_dirname, <<"..">>)
                          m1 == IF format_for_stdlib_flag # NoFormat
                                THEN LET stdlibflag == Format(format_for_stdlib_flag,
                                                              gcc_toolchain_path)
                                     IN  append_to_env_var(
                                             append_to_env_var(m0, "CFLAGS", stdlibflag),
                                             "CXXFLAGS", stdlibflag)
                                ELSE m0
                      IN  Ok([m1 EXCEPT
                                !.self.extra_cmake_options["CMAKE_CXX_LINK_FLAGS"] =
                                    Format(LinkerFlags, gcc_toolchain_path)])

\* The handler asking for a --gcc-toolchain flag as selectClang does.
_init_gcc_with_stdlib_flag(m, version) ==
    _manage_stdlib_from_gcc(
        SetSelf(m, [m.self EXCEPT
                      !.compiler = GCC,
                      !.compiler_version = version,
                      !.c_compiler = <<"gcc-">> \o version,
                      !.cxx_compiler = <<"g++-">> \o version,
                      !.gcov_command = <<"gcov-">> \o version]),
        GccToolchainFlag)

_init_gcc(m, version) ==
    _manage_stdlib_from_gcc(
        SetSelf(m, [m.self EXCEPT
                      !.compiler = GCC,
                      !.compiler_version = version,
                      !.c_compiler = <<"gcc-">> \o version,
                      !.cxx_compiler = <<"g++-">> \o version,
                      !.gcov_command = <<"gcov-">> \o version]),
        NoFormat)

_init_clang(m, version) ==
    LET m1 == SetSelf(m, [m.self EXCEPT
                            !.compiler = CLANG,
                            !.compiler_version = version,
                            !.c_compiler = <<"clang-">> \o version,
                            !.cxx_compiler = <<"clang++-">> \o version])
        r == _manage_stdlib_from_gcc(m1, GccToolchainFlag)
        clang_exe == FindExecutable(r.m.self.c_compiler)
        m3 == Asked(r.m, "find_executable", r.m.self.c_compiler)
    IN  IF r.raised # NoError THEN r
        ELSE IF clang_exe = None THEN Raise(m3, TypeError)
        ELSE LET clang_path == Dirname(clang_exe)
                 symbolizer_path == Join(clang_path, <<"llvm-symbolizer">>)
                 m2 == set_env_var(m3, "ASAN_SYMBOLIZER_PATH", symbolizer_path)
             IN  Ok(set_env_var(m2, "LD_LIBRARY_PATH",
                                Join(clang_path, <<"..", "/", "lib">>)))

\* re.match('^(\d\d)$', version)
TwoDigits(version) ==
    Len(version) = 2 /\ IsDigit(version[1]) /\ IsDigit(version[2])

IccWindowsScript(version, compiler_version) ==
    IF version = <<"1", "5", ".", "0">>
    THEN <<"\"C:\\Program Files (x86)\\Intel\\Composer XE 2015\\bin\\compilervars.bat\" intel64 vs">>
             \o compiler_version
    ELSE IF version = <<"1", "6", ".", "0">>
    THEN <<"\"C:\\Program Files (x86)\\IntelSWTools\\compilers_and_libraries_2016\\windows\\bin\\compilervars.bat\" intel64 vs">>
             \o compiler_version
    ELSE IF TwoDigits(version)
    THEN <<"\"C:\\Program Files (x86)\\IntelSWTools\\compilers_and_libraries_20">>
             \o version \o <<"\\windows\\bin\\compilervars.bat\" intel64 vs">>
             \o compiler_version
    ELSE None

\* A table of released years in place of the two-digit pattern.
IccLinuxScript_known_years(version) ==
    IF version \in {<<"1", "7">>, <<"1", "8">>, <<"1", "9">>}
    THEN <<". /opt/intel/compilers_and_libraries_20">> \o version
             \o <<"/linux/bin/compilervars.sh intel64">>
    ELSE IF version = <<"1", "6", ".", "0">>
    THEN <<". /opt/intel/compilers_and_libraries_2016/linux/bin/compilervars.sh intel64">>
    ELSE None

IccLinuxScript(version) ==
    IF TwoDigits(version)
    THEN <<". /opt/intel/compilers_and_libraries_20">> \o version
             \o <<"/linux/bin/compilervars.sh intel64">>
    ELSE IF version = <<"1", "6", ".", "0">>
    THEN <<". /opt/intel/compilers_and_libraries_2016/linux/bin/compilervars.sh intel64">>
    ELSE IF version = <<"1", "5", ".", "0">>
    THEN <<". /opt/intel/composer_xe_2015/bin/compilervars.sh intel64">>
    ELSE IF version = <<"1", "4", ".", "0">>
    THEN <<". /opt/intel/composer_xe_2013_sp1/bin/compilervars.sh intel64">>
    ELSE IF version = <<"1", "3", ".", "0">>
    THEN <<". /opt/intel/composer_xe_2013/bin/compilervars.sh intel64">>
    ELSE IF version = <<"1", "2", ".", "1">>
    THEN <<". /opt/intel/composer_xe_2011_sp1/bin/compilervars.sh intel64">>
    ELSE None

\* Only the absence of any selection is rejected.
LacksMsvc_none_only(compiler) == compiler = NoCompiler

\* The Windows precondition of _init_icc.
LacksMsvc(compiler) == compiler = NoCompiler \/ compiler # MSVC

_init_icc(m, version) ==
    IF system = WINDOWS
    THEN IF LacksMsvc(m.self.compiler)
         THEN Raise(m, ConfigurationError)
         ELSE LET m1 == [m EXCEPT
                           !.self.c_compiler = <<"icl">>,
                           !.self.cxx_compiler = <<"icl">>,
                           !.self.compiler = INTEL,
                           !.self.extra_cmake_options["CMAKE_EXE_LINKER_FLAGS"] =
                               <<"\"/machine:x64\"">>]
                  script == IccWindowsScript(version, m1.self.compiler_version)
              IN  IF script = None
                  THEN Raise(m1, ConfigurationError)
                  ELSE Ok([run_env_script(m1, script) EXCEPT
                             !.self.compiler_version = version])
    ELSE LET m1 == [m EXCEPT
                      !.self.c_compiler = <<"icc">>,
                      !.self.cxx_compiler = <<"icpc">>,
                      !.self.compiler = INTEL]
             script == IccLinuxScript(version)
         IN  IF script = None
             THEN Raise(m1, ConfigurationError)
             ELSE LET r == _manage_stdlib_from_gcc(run_env_script(m1, script),
                                                   GccNameFlag)
                  IN  IF r.raised # NoError THEN r
                      ELSE Ok([r.m EXCEPT !.self.compiler_version = version])

\* An unknown version falls through to the newest known script.
MsvcScript_unknown_as_2015(version) ==
    IF version = <<"2", "0", "1", "0">>
    THEN <<"\"C:\\Program Files (x86)\\Microsoft Visual Studio 10.0\\VC\\vcvarsall.bat\" amd64">>
    ELSE IF version = <<"2", "0", "1", "3">>
    THEN <<"\"C:\\Program Files (x86)\\Microsoft Visual Studio 12.0\\VC\\vcvarsall.bat\" amd64">>
    ELSE <<"\"C:\\Program Files (x86)\\Microsoft Visual Studio 14.0\\VC\\vcvarsall.bat\" amd64">>

MsvcScript(version) ==
    IF version = <<"2", "0", "1", "0">>
    THEN <<"\"C:\\Program Files (x86)\\Microsoft Visual Studio 10.0\\VC\\vcvarsall.bat\" amd64">>
    ELSE IF version = <<"2", "0", "1", "3">>
    THEN <<"\"C:\\Program Files (x86)\\Microsoft Visual Studio 12.0\\VC\\vcvarsall.bat\" amd64">>
    ELSE IF version = <<"2", "0", "1", "5">>
    THEN <<"\"C:\\Program Files (x86)\\Microsoft Visual Studio 14.0\\VC\\vcvarsall.bat\" amd64">>
    ELSE None

_init_msvc(m, version) ==
    LET m1 == [m EXCEPT !.self.compiler = MSVC,
                        !.self.compiler_version = version]
        script == MsvcScript(version)
    IN  IF script = None
        THEN Raise(m1, ConfigurationError)
        ELSE Ok(run_env_script(m1, script))

-----------------------------------------------------------------------------
(* Static analyzer, accelerator and auxiliary options *)

\* workspace.get_log_dir(category='scan_html')
ScanHtmlLogDir == <<"logs", "/", "scan_html">>

_init_clang_static_analyzer(m, version) ==
    LET scan_build == <<"scan-build-">> \o version
        cxx_analyzer == <<"c++-analyzer-">> \o version
        html_output_dir == ScanHtmlLogDir
        m1 == [m EXCEPT !.self.clang_analyzer_output_dir = html_output_dir]
        m2 == set_env_var(m1, "CCC_CC", m1.self.c_compiler)
        m3 == set_env_var(m2, "CCC_CXX", m2.self.cxx_compiler)
    IN  Ok([m3 EXCEPT
              !.self.cxx_compiler = cxx_analyzer,
              !.self._build_prefix_cmd = scan_build \o <<" -o ">> \o html_output_dir,
              !.self.extra_cmake_options["GMX_STDLIB_CXX_FLAGS"] = <<"-stdlib=libc++">>,
              !.self.extra_cmake_options["GMX_STDLIB_LIBRARIES"] = <<"-lc++abi -lc++">>])

_init_cuda(m, version) ==
    Ok([m EXCEPT !.self.cuda_root = <<"/opt/cuda_">> \o version])

_init_amdappsdk(m, version) ==
    Ok([m EXCEPT !.self.amdappsdk_root = <<"/opt/AMDAPPSDK-">> \o version])

_init_phi(m) ==
    Ok([m EXCEPT !.self.extra_cmake_options["CMAKE_PREFIX_PATH"] =
                     ExpandUser(<<"/", "utils", "/", "libxml2">>)])

_init_tsan(m) ==
    Ok(set_env_var(m, "LD_LIBRARY_PATH",
                   ExpandUser(<<"/", "tools", "/", "gcc-nofutex", "/", "lib64">>)))

\* The library path exported through the loader's variable, which the
\* tsan workaround also sets.
_init_atlas_on_loader_path(m) ==
    Ok(set_env_var(m, "LD_LIBRARY_PATH", <<"/usr/lib/atlas-base">>))

_init_atlas(m) ==
    Ok(set_env_var(m, "CMAKE_LIBRARY_PATH", <<"/usr/lib/atlas-base">>))

_init_mpi(m) ==
    LET lookup == m.self.compiler \in {GCC, INTEL} /\ system # WINDOWS
        c_compiler_path == FindExecutable(m.self.c_compiler)
        m0 == IF lookup THEN Asked(m, "find_executable", m.self.c_compiler) ELSE m
    IN  IF lookup /\ ~Truthy(c_compiler_path)
        THEN Raise(m0, ConfigurationError)
        ELSE LET m1 == IF lookup
                       THEN [m0 EXCEPT !.self.cuda_host_compiler = c_compiler_path]
                       ELSE m0
                 m2 == set_env_var(m1, "OMPI_CC", m1.self.c_compiler)
                 m3 == set_env_var(m2, "OMPI_CXX", m2.self.cxx_compiler)
             IN  Ok([m3 EXCEPT !.self.c_compiler = <<"mpicc">>,
                               !.self.cxx_compiler = <<"mpic++">>])

-----------------------------------------------------------------------------
(* The executors (src/releng/executor.py) and the file system they act on *)

\* The exception the os and shutil calls end with.
OSError == "OSError"

\* Paths below the workspace, as sequences of names; the workspace itself
\* (the empty path) is a directory throughout.
FsPaths ==
    {<<"build">>, <<"build", "old">>, <<"build", "sub">>,
     <<"build", "sub", "old">>}

Absent == [kind |-> "absent", text |-> <<>>]
Dir == [kind |-> "dir", text |-> <<>>]
File(contents) == [kind |-> "file", text |-> contents]

Parent(path) == SubSeq(path, 1, Len(path) - 1)

\* q is p or lies below p.
Under(p, q) == Len(q) >= Len(p) /\ SubSeq(q, 1, Len(p)) = p

\* os.path.exists, os.path.isdir
PathExists(f, path) == path = <<>> \/ f[path].kind # "absent"
IsDir(f, path) == path = <<>> \/ f[path].kind = "dir"

\* The entries of a directory, at any depth.
ContentsOf(f, path) == {q \in FsPaths : Under(path, q) /\ q # path /\ f[q].kind # "absent"}

\* What a file-system call leaves behind, and how it ended.
FsOk(f) == [fs |-> f, raised |-> NoError]
FsRaise(f) == [fs |-> f, raised |-> OSError]

\* shutil.rmtree: removes a directory with everything below it; anything
\* else is an error.
rmtree(f, path) ==
    IF f[path].kind = "dir"
    THEN FsOk([q \in FsPaths |-> IF Under(path, q) THEN Absent ELSE f[q]])
    ELSE FsRaise(f)

\* os.makedirs: creates the directory and the missing directories above
\* it; an error if the path exists or a name above it is a file.
makedirs(f, path) ==
    IF \/ PathExists(f, path)
       \/ \E q \in FsPaths : Under(q, path) /\ f[q].kind = "file"
    THEN FsRaise(f)
    ELSE FsOk([q \in FsPaths |-> IF Under(q, path) THEN Dir ELSE f[q]])

\* The method without the removal of an existing directory.
Executor_ensure_dir_exists_keeps_contents(f, path, ensure_empty) ==
    IF IsDir(f, path) THEN FsOk(f) ELSE makedirs(f, path)

\* Executor.ensure_dir_exists
Executor_ensure_dir_exists(f, path, ensure_empty) ==
    IF ensure_empty
    THEN IF PathExists(f, path)
         THEN LET r == rmtree(f, path)
              IN  IF r.raised # NoError THEN r ELSE makedirs(r.fs, path)
         ELSE makedirs(f, path)
    ELSE IF IsDir(f, path)
    THEN FsOk(f)
    ELSE makedirs(f, path)

\* Executor.write_file: open(path, 'w') truncates or creates the file in
\* an existing directory.
Executor_write_file(f, path, contents) ==
    IF IsDir(f, path) \/ ~IsDir(f, Parent(path))
    THEN FsRaise(f)
    ELSE FsOk([f EXCEPT ![path] = File(contents)])

\* The dry-run method acting as the real one does.
DryRunExecutor_ensure_dir_exists_for_real(f, path, ensure_empty) ==
    Executor_ensure_dir_exists(f, path, ensure_empty)

\* DryRunExecutor.ensure_dir_exists
DryRunExecutor_ensure_dir_exists(f, path, ensure_empty) == FsOk(f)

\* A path as the string handed to the executor.
RECURSIVE PathString(_)
PathString(path) ==
    IF Len(path) = 1
    THEN <<path[1]>>
    ELSE PathString(Parent(path)) \o <<"/", path[Len(path)]>>

\* DryRunExecutor.write_file: the two lines it prints.
DryRunExecutor_write_file(path, contents) ==
    <<<<"write: ">> \o PathString(path) \o <<" <<<">>,
      contents \o <<"<<<">>>>

-----------------------------------------------------------------------------
(* The build node, the handler calls and their arguments *)

\* Bound on the number of handler calls in one job.
MaxCalls == 3

Systems == {LINUX, WINDOWS, OSX}

v3_5 == <<"3", ".", "5">>
v3_10 == <<"3", ".", "1", "0">>
v3_12 == <<"3", ".", "1", "2">>
v3_14 == <<"3", ".", "1", "4">>
v3_x == <<"3", ".", "x">>

\* Versions the active cmake may report.
ActiveCMakeVersions == {v3_5, v3_12}

\* requestMinimumCMake arguments (None: no version requested).
MinimumCMakeArgs == {None, v3_5, v3_10, v3_12, v3_x}

\* Arguments of the direct CMake-version handler.
CMakeArgs == {v3_5, v3_10, v3_14}

GccArgs == {<<"7">>}
ClangArgs == {<<"6", ".", "0">>}
IccArgs == {<<"9", "9">>, <<"1", "6", ".", "0">>, <<"9">>}
MsvcArgs == {<<"2", "0", "1", "0">>, <<"2", "0", "1", "3">>,
             <<"2", "0", "1", "5">>, <<"2", "0", "1", "2">>}
AnalyzerArgs == {<<"6", ".", "0">>}
CudaArgs == {<<"9", ".", "0">>}
AmdArgs == {<<"3", ".", "0">>}

\* The node's default companion gcc, when it names one.
NodeGcc == <<"gcc-", "5">>

\* What the node offers the compiler handlers: its default companion gcc
\* and the executables absent from its search path.
ExecutableWorlds ==
    {[default_gcc |-> None, missing |-> {}],
     [default_gcc |-> NodeGcc, missing |-> {}],
     [default_gcc |-> NodeGcc, missing |-> {NodeGcc}],
     [default_gcc |-> NodeGcc, missing |-> {<<"gcc-", "7">>, <<"icc">>}]}

\* A node with every CMake distribution installed.
AllInstalled == [d \in CMakeDirNames |-> "cmake"]

\* os.listdir: the names present, in any order.
Listings ==
    LET present == {d \in CMakeDirNames : cmake_dirs[d] # "absent"}
    IN  {l \in UNION {[1..n -> present] : n \in 0..Cardinality(CMakeDirNames)} :
            /\ Len(l) = Cardinality(present)
            /\ \A d \in present : \E i \in 1..Len(l) : l[i] = d}

NoCall == [op |-> "__init__", arg |-> None, raised |-> NoError]

InitMachine ==
    /\ self = InitSelf
    /\ env = _init_system(ProcessEnv)
    /\ imported = <<>>
    /\ queries = <<>>
    /\ assigned = <<>>
    /\ last = NoCall
    /\ calls = 0

\* No comparison made yet.
Unjudged ==
    [done |-> FALSE, self_older |-> FALSE, forth |-> FALSE, back |-> FALSE,
     onward |-> FALSE, across |-> FALSE]

InitOrderIdle ==
    /\ older = None
    /\ newer = None
    /\ other = None
    /\ verdict = Unjudged

\* An empty workspace and the real executor.
InitExecIdle ==
    /\ fs = [path \in FsPaths |-> Absent]
    /\ console = <<>>
    /\ dry_run = FALSE

Init ==
    /\ system \in Systems
    /\ \E w \in ExecutableWorlds :
           default_gcc = w.default_gcc /\ missing = w.missing
    /\ cmake_active = v3_5
    /\ cmake_dirs = AllInstalled
    /\ InitMachine
    /\ InitOrderIdle
    /\ InitExecIdle

\* What a handler call leaves behind: the machine as the handler left
\* it, also when it raised.
Returned(op, arg, r) ==
    /\ self' = r.m.self
    /\ env' = r.m.env
    /\ imported' = r.m.imported
    /\ queries' = r.m.queries
    /\ assigned' = r.m.assigned
    /\ last' = [op |-> op, arg |-> arg, raised |-> r.raised]
    /\ calls' = calls + 1
    /\ UNCHANGED <<worldVars, orderVars, execVars>>

Now == Machine(self, env, imported, queries, assigned)

SetCMakeMinimumVersion(versions) ==
    /\ calls < MaxCalls
    /\ \E version \in versions, listing \in Listings :
           Returned("_set_cmake_minimum_version", version,
                    _set_cmake_minimum_version(Now, version, listing))

InitCMake(versions) ==
    /\ calls < MaxCalls
    /\ \E version \in versions :
           Returned("_init_cmake", version, Ok(_init_cmake(Now, version)))

InitGcc ==
    /\ calls < MaxCalls
    /\ \E version \in GccArgs :
           Returned("_init_gcc", version, _init_gcc(Now, version))

InitClang ==
    /\ calls < MaxCalls
    /\ \E version \in ClangArgs :
           Returned("_init_clang", version, _init_clang(Now, version))

InitIcc ==
    /\ calls < MaxCalls
    /\ \E version \in IccArgs :
           Returned("_init_icc", version, _init_icc(Now, version))

InitMsvc ==
    /\ calls < MaxCalls
    /\ \E version \in MsvcArgs :
           Returned("_init_msvc", version, _init_msvc(Now, version))

InitClangStaticAnalyzer ==
    /\ calls < MaxCalls
    /\ \E version \in AnalyzerArgs :
           Returned("_init_clang_static_analyzer", version,
                    _init_clang_static_analyzer(Now, version))

InitCuda ==
    /\ calls < MaxCalls
    /\ \E version \in CudaArgs :
           Returned("_init_cuda", version, _init_cuda(Now, version))

InitAmdAppSdk ==
    /\ calls < MaxCalls
    /\ \E version \in AmdArgs :
           Returned("_init_amdappsdk", version, _init_amdappsdk(Now, version))

InitPhi ==
    /\ calls < MaxCalls
    /\ Returned("_init_phi", None, _init_phi(Now))

InitTsan ==
    /\ calls < MaxCalls
    /\ Returned("_init_tsan", None, _init_tsan(Now))

InitAtlas ==
    /\ calls < MaxCalls
    /\ Returned("_init_atlas", None, _init_atlas(Now))

InitMpi ==
    /\ calls < MaxCalls
    /\ Returned("_init_mpi", None, _init_mpi(Now))

\* A job: any sequence of handler calls.
Next ==
    \/ SetCMakeMinimumVersion({v3_10})
    \/ InitCMake({v3_5})
    \/ InitGcc
    \/ InitClang
    \/ InitIcc
    \/ InitMsvc
    \/ InitClangStaticAnalyzer
    \/ InitCuda
    \/ InitAmdAppSdk
    \/ InitPhi
    \/ InitTsan
    \/ InitAtlas
    \/ InitMpi

Spec == Init /\ [][Next]_vars

\* The CMake handlers alone, on every node and with every argument.
InitCMakeNodes ==
    /\ system \in Systems
    /\ default_gcc = None
    /\ missing = {}
    /\ cmake_active \in ActiveCMakeVersions
    /\ cmake_dirs \in [CMakeDirNames -> DirStates]
    /\ InitMachine
    /\ InitOrderIdle
    /\ InitExecIdle

NextCMake ==
    \/ SetCMakeMinimumVersion(MinimumCMakeArgs)
    \/ InitCMake(CMakeArgs)

SpecCMake == InitCMakeNodes /\ [][NextCMake]_vars

-----------------------------------------------------------------------------
(* The version ordering on its own: three version strings are drawn and   *)
(* _is_older_version is applied to them.                                  *)

\* Longest generated version string, in characters.
MaxVersionLen == 3

VersionChars == {"1", "9", "."}

ExampleVersions ==
    {<<"4", ".", "9">>, <<"5", ".", "0">>, <<"5", ".", "0", ".", "1">>,
     v3_5, v3_10}

\* The well-formed dotted-integer strings of the bounded alphabet, and the
\* examples.
VersionStrings ==
    {s \in UNION {[1..n -> VersionChars] : n \in 1..MaxVersionLen} :
        ~Malformed(s)} \cup ExampleVersions

InitOrder ==
    /\ older \in VersionStrings
    /\ newer \in VersionStrings
    /\ other \in VersionStrings
    /\ verdict = Unjudged
    /\ system = LINUX
    /\ default_gcc = None
    /\ missing = {}
    /\ cmake_active = v3_5
    /\ cmake_dirs = AllInstalled
    /\ InitMachine
    /\ InitExecIdle

Compare ==
    /\ ~verdict.done
    /\ verdict' = [done |-> TRUE,
                   self_older |-> _is_older_version(older, older),
                   forth |-> _is_older_version(older, newer),
                   back |-> _is_older_version(newer, older),
                   onward |-> _is_older_version(newer, other),
                   across |-> _is_older_version(older, other)]
    /\ UNCHANGED <<worldVars, machineVars, last, calls, older, newer, other,
                   execVars>>

NextOrder == Compare

SpecOrder == InitOrder /\ [][NextOrder]_vars

-----------------------------------------------------------------------------
(* The executors on their own: a workspace drawn from the consistent file  *)
(* systems, and a job's calls on the real or on the dry-run executor.      *)

OldText == <<"old">>

\* Contents handed to write_file.
WriteContents == {<<>>, <<"new", "\n">>}

\* Paths handed to write_file.
WritePaths == {<<"build", "old">>, <<"build", "sub", "old">>}

\* The file systems a job may start from: every entry lies in a directory.
Workspaces ==
    {f \in [FsPaths -> {Absent, Dir, File(OldText)}] :
        \A path \in FsPaths : f[path].kind # "absent" => IsDir(f, Parent(path))}

InitExecutor ==
    /\ fs \in Workspaces
    /\ console = <<>>
    /\ dry_run \in BOOLEAN
    /\ system = LINUX
    /\ default_gcc = None
    /\ missing = {}
    /\ cmake_active = v3_5
    /\ cmake_dirs = AllInstalled
    /\ InitMachine
    /\ InitOrderIdle

\* What an executor call leaves behind.
Executed(op, arg, r, printed) ==
    /\ fs' = r.fs
    /\ console' = console \o printed
    /\ last' = [op |-> op, arg |-> arg, raised |-> r.raised]
    /\ calls' = calls + 1
    /\ UNCHANGED <<worldVars, machineVars, orderVars, dry_run>>

EnsureDirExists ==
    /\ calls < MaxCalls
    /\ ~dry_run
    /\ \E path \in FsPaths, ensure_empty \in BOOLEAN :
           Executed("ensure_dir_exists", <<path, ensure_empty>>,
                    Executor_ensure_dir_exists(fs, path, ensure_empty), <<>>)

WriteFile ==
    /\ calls < MaxCalls
    /\ ~dry_run
    /\ \E path \in WritePaths, contents \in WriteContents :
           Executed("write_file", <<path, contents>>,
                    Executor_write_file(fs, path, contents), <<>>)

DryRunEnsureDirExists ==
    /\ calls < MaxCalls
    /\ dry_run
    /\ \E path \in FsPaths, ensure_empty \in BOOLEAN :
           Executed("ensure_dir_exists", <<path, ensure_empty>>,
                    DryRunExecutor_ensure_dir_exists(fs, path, ensure_empty),
                    <<>>)

DryRunWriteFile ==
    /\ calls < MaxCalls
    /\ dry_run
    /\ \E path \in WritePaths, contents \in WriteContents :
           Executed("write_file", <<path, contents>>, FsOk(fs),
                    DryRunExecutor_write_file(path, contents))

NextExecutor ==
    \/ EnsureDirExists
    \/ WriteFile
    \/ DryRunEnsureDirExists
    \/ DryRunWriteFile

SpecExecutor == InitExecutor /\ [][NextExecutor]_vars

-----------------------------------------------------------------------------
(* Claims *)

\* Comparison of two digit strings as integers, without computing them:
\* leading zeros aside, the shorter is smaller, and equal lengths are
\* decided by the first differing digit.
StripZeros(x) ==
    LET nz == {i \in 1..Len(x) : x[i] # "0"}
    IN  IF nz = {} THEN <<>>
        ELSE SubSeq(x, CHOOSE i \in nz : \A j \in nz : i <= j, Len(x))

SmallerInteger(x, y) ==
    LET a == StripZeros(x)
        b == StripZeros(y)
    IN  \/ Len(a) < Len(b)
        \/ /\ Len(a) = Len(b)
           /\ \E i \in 1..Len(a) :
                  /\ DigitVal(a[i]) < DigitVal(b[i])
                  /\ \A j \in 1..(i - 1) : a[j] = b[j]

SameInteger(x, y) == StripZeros(x) = StripZeros(y)

\* Left-to-right componentwise integer comparison of two dotted strings.
ComponentwiseOlder(a, b) ==
    LET pa == Split(a, ".")
        pb == Split(b, ".")
    IN  \E k \in 1..Len(pb) :
            /\ k - 1 <= Len(pa)
            /\ \A j \in 1..(k - 1) : SameInteger(pa[j], pb[j])
            /\ \/ k > Len(pa)
               \/ SmallerInteger(pa[k], pb[k])

\* b is a followed by further components.
ProperPrefix(a, b) ==
    /\ Len(a) < Len(b)
    /\ SubSeq(b, 1, Len(a)) = a
    /\ b[Len(a) + 1] = "."

\* C10: on well-formed dotted-integer strings _is_older_version is a strict
\* ordering that agrees with componentwise integer comparison: irreflexive,
\* asymmetric, transitive, a proper prefix older than its extension, and
\* components compared as integers ("4.9" < "5.0", "5.0" not < "5.0",
\* "5.0.1" not < "5.0", "3.5" < "3.10").
C10_IsOlderStrictOrder ==
    verdict.done =>
        /\ ~verdict.self_older
        /\ ~(verdict.forth /\ verdict.back)
        /\ (verdict.forth /\ verdict.onward) => verdict.across
        /\ ProperPrefix(older, newer) => verdict.forth
        /\ verdict.forth <=> ComponentwiseOlder(older, newer)
        /\ (older = <<"4", ".", "9">> /\ newer = <<"5", ".", "0">>) => verdict.forth
        /\ (older = <<"5", ".", "0">> /\ newer = <<"5", ".", "0">>) => ~verdict.forth
        /\ (older = <<"5", ".", "0", ".", "1">> /\ newer = <<"5", ".", "0">>)
               => ~verdict.forth
        /\ (older = v3_5 /\ newer = v3_10) => verdict.forth

\* "3.5" has been compared with "3.10" and "3.10" with "5.0.1".
C10_Witness ==
    /\ verdict.done
    /\ older = v3_5 /\ newer = v3_10 /\ other = <<"5", ".", "0", ".", "1">>
    /\ verdict.forth /\ verdict.onward /\ verdict.across /\ ~verdict.back


LegacyIccVersions ==
    {<<"1", "6", ".", "0">>, <<"1", "5", ".", "0">>, <<"1", "4", ".", "0">>,
     <<"1", "3", ".", "0">>, <<"1", "2", ".", "1">>}

\* C1 as stated: on a non-Windows node selectIntel("99") raises
\* ConfigurationError.
C1_Icc99Raises ==
    (system # WINDOWS /\ last.op = "_init_icc" /\ last.arg = <<"9", "9">>)
        => last.raised = ConfigurationError

\* C1 amended: on a non-Windows node selectIntel raises ConfigurationError
\* exactly for a version that is neither two digits nor one of the legacy
\* dotted versions; "99" is two digits, so it does not raise it and the
\* script of compilers_and_libraries_2099 is the one last sourced.
C1_IccRejectsOnlyOffPattern ==
    (system # WINDOWS /\ last.op = "_init_icc") =>
        /\ last.raised = ConfigurationError
               <=> ~(TwoDigits(last.arg) \/ last.arg \in LegacyIccVersions)
        /\ last.arg = <<"9", "9">> =>
               /\ last.raised # ConfigurationError
               /\ imported # <<>>
               /\ SubSeq(imported[Len(imported)], 1, 4) =
                      <<". /opt/intel/compilers_and_libraries_20", "9", "9",
                        "/linux/bin/compilervars.sh intel64">>

\* selectIntel("99") has completed on Linux.
C1_Witness ==
    /\ system = LINUX
    /\ last = [op |-> "_init_icc", arg |-> <<"9", "9">>, raised |-> NoError]
    /\ self.compiler = INTEL
    /\ self.compiler_version = <<"9", "9">>

\* No version of the sequence is older than the one before it.
Ascending(versions) ==
    \A i \in 1..(Len(versions) - 1) :
        ~ComponentwiseOlder(versions[i + 1], versions[i])

\* C2 as stated: over any sequence of handler calls, every value
\* cmakeVersion takes once set is not older than the value it replaces.
C2_CMakeVersionNeverDecreases == Ascending(assigned)

\* C2 amended: a call of any handler other than the direct CMake-version
\* handler _init_cmake never replaces cmakeVersion by an older version:
\* the values it assigns, from the one held before the call on, ascend.
C2_OnlyInitCMakeRegresses ==
    [][last'.op # "_init_cmake" =>
          Ascending(SubSeq(assigned',
                           IF assigned = <<>> THEN 1 ELSE Len(assigned),
                           Len(assigned')))]_vars

\* requestMinimumCMake has recorded the active version and then activated
\* two installed versions in turn.
C2_Witness ==
    /\ last.op = "_set_cmake_minimum_version"
    /\ last.raised = NoError
    /\ Len(assigned) >= 3
    /\ self.cmake_version = assigned[Len(assigned)]

\* C3 as stated: in every reachable state, also after a call that raised,
\* compilerVersion is present iff compilerFamily is present.
C3_VersionIffFamily ==
    (self.compiler_version # None) <=> (self.compiler # NoCompiler)

\* C4 as stated: a handler called a second time with the same argument,
\* right after the first call, leaves every attribute and environment
\* variable as the first call left it, and fails only if the first did.
C4_HandlersIdempotent ==
    [][(calls' = calls + 1 /\ last'.op = last.op /\ last'.arg = last.arg) =>
          /\ self' = self
          /\ env' = env
          /\ (last'.raised # NoError => last.raised # NoError)]_vars

\* The version token of a directory name, and the installed versions
\* whose cmake binary exists.
VersionOfDir(d) == LET parts == Split(d, "-") IN parts[Len(parts)]

InstalledVersions == {VersionOfDir(d) : d \in {x \in CMakeDirNames : cmake_dirs[x] = "cmake"}}

Satisfying(version) ==
    {w \in InstalledVersions : ~ComponentwiseOlder(w, version)}

\* The binary of the installation of version w.
BinaryOf(w, name) ==
    LET d == CHOOSE x \in CMakeDirNames :
                 cmake_dirs[x] = "cmake" /\ VersionOfDir(x) = w
    IN  Join(Join(Join(CMakeBaseDir, d), <<"bin">>), <<name>>)

\* requestMinimumCMake(version) is the step taken, with no cmakeVersion
\* recorded and a well-formed version requested.
FirstRequest ==
    /\ calls' = calls + 1
    /\ last'.op = "_set_cmake_minimum_version"
    /\ ~Truthy(self.cmake_version)
    /\ Truthy(last'.arg)
    /\ ~Malformed(last'.arg)

\* C5 as stated: when the active cmake is older than the request and some
\* installed version is not, the handler ends on the lowest such version,
\* with that installation's cmake and ctest.
C5_LowestSatisfyingActivated ==
    [][(/\ FirstRequest
        /\ ComponentwiseOlder(cmake_active, last'.arg)
        /\ Satisfying(last'.arg) # {}) =>
          LET w == CHOOSE x \in Satisfying(last'.arg) :
                       \A y \in Satisfying(last'.arg) : ~ComponentwiseOlder(y, x)
          IN  /\ self'.cmake_version = w
              /\ self'.cmake_command = BinaryOf(w, "cmake")
              /\ self'.ctest_command = BinaryOf(w, "ctest")]_vars

\* C6: requestMinimumCMake(v) with no cmakeVersion recorded and an active
\* cmake not older than v leaves cmakeCommandPath and ctestCommandPath as
\* they were, lists no directory, activates no installation and records
\* the active cmake's version as cmakeVersion.
C6_SatisfiedMinimumKeepsPaths ==
    [][(FirstRequest /\ ~ComponentwiseOlder(cmake_active, last'.arg)) =>
          /\ self'.cmake_command = self.cmake_command
          /\ self'.ctest_command = self.ctest_command
          /\ self'.cmake_version = cmake_active
          /\ assigned' = Append(assigned, cmake_active)
          /\ queries' = Append(queries, <<"get_cmake_version">> \o self.cmake_command)
          /\ last'.raised = NoError]_vars

\* The active cmake 3.12 has satisfied a request for 3.10 on a node that
\* also has installations the scan would have activated.
C6_Witness ==
    /\ last = [op |-> "_set_cmake_minimum_version", arg |-> v3_10,
               raised |-> NoError]
    /\ calls = 1
    /\ cmake_active = v3_12
    /\ cmake_dirs = AllInstalled
    /\ self.cmake_version = v3_12
    /\ self.cmake_command = <<"cmake">>

\* C7: on Windows, selectIntel called while the selected family is not
\* MSVC raises ConfigurationError and leaves every attribute, the
\* environment, the imported scripts and the build variables as they were.
C7_IccOnWindowsNeedsMsvc ==
    [][(/\ calls' = calls + 1
        /\ last'.op = "_init_icc"
        /\ system = WINDOWS
        /\ self.compiler # MSVC) =>
          /\ last'.raised = ConfigurationError
          /\ UNCHANGED machineVars]_vars

\* A second selectIntel, with a known version, has been rejected because
\* the first one left the family Intel.
C7_Witness ==
    /\ system = WINDOWS
    /\ last = [op |-> "_init_icc", arg |-> <<"1", "6", ".", "0">>,
               raised |-> ConfigurationError]
    /\ self.compiler = INTEL
    /\ Len(imported) = 2

KnownMsvcVersions ==
    {<<"2", "0", "1", "0">>, <<"2", "0", "1", "3">>, <<"2", "0", "1", "5">>}

\* C8: selectMSVC with a version other than 2010, 2013, 2015 raises
\* ConfigurationError and runs no script; with one of the three it runs
\* exactly one script, not the script of another of the three, and records
\* family MSVC with that version.
C8_MsvcKnownVersionsOnly ==
    [][(calls' = calls + 1 /\ last'.op = "_init_msvc") =>
          IF last'.arg \in KnownMsvcVersions
          THEN /\ last'.raised = NoError
               /\ Len(imported') = Len(imported) + 1
               /\ SubSeq(imported', 1, Len(imported)) = imported
               /\ self'.compiler = MSVC
               /\ self'.compiler_version = last'.arg
               /\ (/\ last.op = "_init_msvc"
                   /\ last.arg \in KnownMsvcVersions
                   /\ last.arg # last'.arg)
                      => imported'[Len(imported')] # imported[Len(imported)]
          ELSE /\ last'.raised = ConfigurationError
               /\ imported' = imported]_vars

\* selectMSVC("2012") has been rejected after a selectMSVC that ran its
\* script.
C8_Witness ==
    /\ last = [op |-> "_init_msvc", arg |-> <<"2", "0", "1", "2">>,
               raised |-> ConfigurationError]
    /\ calls = 2
    /\ Len(imported) = 1
    /\ self.compiler = MSVC

CompilerHandlers == {"_init_gcc", "_init_clang", "_init_icc", "_init_msvc"}

\* The compiler-selection handler of the given name.
Select(op, version, m) ==
    CASE op = "_init_gcc" -> _init_gcc(m, version)
      [] op = "_init_clang" -> _init_clang(m, version)
      [] op = "_init_icc" -> _init_icc(m, version)
      [] op = "_init_msvc" -> _init_msvc(m, version)

\* The configuration right after construction.
Fresh == Machine(InitSelf, _init_system(ProcessEnv), <<>>, <<>>, <<>>)

\* The attributes derived from the compiler family.
Derived(s) ==
    <<s.compiler, s.compiler_version, s.c_compiler, s.cxx_compiler,
      s.gcov_command>>

\* C9 as stated: selecting family A on a fresh configuration and then a
\* different family B either raises ConfigurationError or leaves the
\* derived attributes as selecting B alone on a fresh configuration does.
C9_SecondFamilyOverwrites ==
    [][(/\ calls = 1 /\ calls' = 2
        /\ last.op \in CompilerHandlers
        /\ last.raised = NoError
        /\ last'.op \in CompilerHandlers
        /\ last'.op # last.op) =>
          \/ last'.raised = ConfigurationError
          \/ Derived(self') = Derived(Select(last'.op, last'.arg, Fresh).m.self)]_vars

\* The toolchain root of an executable the node locates: the directory of
\* the executable, followed by '..'.
ToolchainRoot(name) ==
    <<PathSep, "opt", PathSep>> \o name \o <<PathSep, "bin", PathSep, "..">>

\* The rpath/library-path linker flags for a toolchain root.
RpathFlags(root) ==
    <<"-Wl,-rpath,">> \o root \o <<"/lib64 -L">> \o root \o <<"/lib64">>

\* C11: selectGCC(v) sets family GCC, version v, compilers "gcc-<v>" and
\* "g++-<v>" and coverage tool "gcov-<v>", leaves CFLAGS and CXXFLAGS as
\* they were and changes no build variable other than CMAKE_CXX_LINK_FLAGS;
\* with "gcc-<v>" located on the node it completes and sets that variable
\* to the rpath/library-path flags of the executable's toolchain root.
C11_GccSelection ==
    [][(calls' = calls + 1 /\ last'.op = "_init_gcc") =>
          LET v == last'.arg
              gcc == <<"gcc-">> \o v
          IN  /\ self'.compiler = GCC
              /\ self'.compiler_version = v
              /\ self'.c_compiler = gcc
              /\ self'.cxx_compiler = <<"g++-">> \o v
              /\ self'.gcov_command = <<"gcov-">> \o v
              /\ env'["CFLAGS"] = env["CFLAGS"]
              /\ env'["CXXFLAGS"] = env["CXXFLAGS"]
              /\ \A k \in OptionKeys \ {"CMAKE_CXX_LINK_FLAGS"} :
                     self'.extra_cmake_options[k] = self.extra_cmake_options[k]
              /\ gcc \notin missing =>
                     /\ last'.raised = NoError
                     /\ self'.extra_cmake_options["CMAKE_CXX_LINK_FLAGS"] =
                            RpathFlags(ToolchainRoot(gcc))]_vars

\* selectGCC("7") has completed on Linux after selectClang had put a flag
\* into CFLAGS and the analyzer had set build variables.
C11_Witness ==
    /\ system = LINUX
    /\ last = [op |-> "_init_gcc", arg |-> <<"7">>, raised |-> NoError]
    /\ self.c_compiler = <<"gcc-", "7">>
    /\ env["CFLAGS"] = <<"--gcc-toolchain=", "/", "opt", "/", "gcc-", "5",
                         "/", "bin", "/", "..">>
    /\ self.extra_cmake_options["CMAKE_CXX_LINK_FLAGS"] =
           <<"-Wl,-rpath,", "/", "opt", "/", "gcc-", "7", "/", "bin", "/", "..",
             "/lib64 -L", "/", "opt", "/", "gcc-", "7", "/", "bin", "/", "..",
             "/lib64">>

\* What a variable holds after a flag is appended to what it held.
WithAppended(held, flag) ==
    IF Truthy(held) THEN held \o <<" ">> \o flag ELSE flag

\* A completed selectClang step.
ClangSelected ==
    /\ calls' = calls + 1
    /\ last'.op = "_init_clang"
    /\ last'.raised = NoError

\* C12 as stated: a completed selectClang(v) sets the compilers to
\* "clang-<v>" and "clang++-<v>", sets ASAN_SYMBOLIZER_PATH to
\* llvm-symbolizer beside the located clang, and appends a flag beginning
\* "--gcc-toolchain=" to what CFLAGS and CXXFLAGS held.
C12_ClangAppendsToolchainFlag ==
    [][ClangSelected =>
          LET clang == <<"clang-">> \o last'.arg
          IN  /\ self'.c_compiler = clang
              /\ self'.cxx_compiler = <<"clang++-">> \o last'.arg
              /\ env'["ASAN_SYMBOLIZER_PATH"] =
                     <<PathSep, "opt", PathSep>> \o clang
                         \o <<PathSep, "bin", PathSep, "llvm-symbolizer">>
              /\ \A variable \in {"CFLAGS", "CXXFLAGS"} :
                     \E n \in 1..Len(env'[variable]) :
                         /\ env'[variable][n] = "--gcc-toolchain="
                         /\ env'[variable] =
                                WithAppended(env[variable],
                                             SubSeq(env'[variable], n,
                                                    Len(env'[variable])))
                         /\ \A j \in (n + 1)..Len(env'[variable]) :
                                env'[variable][j] # "--gcc-toolchain="]_vars

\* C12 amended: a completed selectClang(v) sets the compilers and
\* ASAN_SYMBOLIZER_PATH as stated; on a node that names a default GCC it
\* appends "--gcc-toolchain=<toolchain root of that GCC>" to what CFLAGS
\* and CXXFLAGS held, and on a node that names none it leaves both
\* variables as they were.
C12_ClangFlagNeedsNodeGcc ==
    [][ClangSelected =>
          LET clang == <<"clang-">> \o last'.arg
          IN  /\ self'.c_compiler = clang
              /\ self'.cxx_compiler = <<"clang++-">> \o last'.arg
              /\ env'["ASAN_SYMBOLIZER_PATH"] =
                     <<PathSep, "opt", PathSep>> \o clang
                         \o <<PathSep, "bin", PathSep, "llvm-symbolizer">>
              /\ \A variable \in {"CFLAGS", "CXXFLAGS"} :
                     env'[variable] =
                         IF default_gcc = None
                         THEN env[variable]
                         ELSE WithAppended(env[variable],
                                           <<"--gcc-toolchain=">>
                                               \o ToolchainRoot(default_gcc))]_vars

\* A second selectClang("6.0") has completed on Linux: CFLAGS holds the
\* flag of the first call followed by the flag of the second.
C12_Witness ==
    /\ system = LINUX
    /\ default_gcc = NodeGcc
    /\ last = [op |-> "_init_clang", arg |-> <<"6", ".", "0">>, raised |-> NoError]
    /\ env["ASAN_SYMBOLIZER_PATH"] =
           <<"/", "opt", "/", "clang-", "6", ".", "0", "/", "bin", "/",
             "llvm-symbolizer">>
    /\ env["CFLAGS"] =
           <<"--gcc-toolchain=", "/", "opt", "/", "gcc-", "5", "/", "bin", "/", "..",
             " ",
             "--gcc-toolchain=", "/", "opt", "/", "gcc-", "5", "/", "bin", "/", "..">>

\* The accelerator and auxiliary handlers with their arguments.
AuxiliaryCalls ==
    {[op |-> "_init_cuda", arg |-> v] : v \in CudaArgs}
        \cup {[op |-> "_init_amdappsdk", arg |-> v] : v \in AmdArgs}
        \cup {[op |-> o, arg |-> None] :
                 o \in {"_init_phi", "_init_tsan", "_init_atlas", "_init_mpi"}}

AuxiliaryOps == {c.op : c \in AuxiliaryCalls}

Auxiliary(m, c) ==
    CASE c.op = "_init_cuda" -> _init_cuda(m, c.arg)
      [] c.op = "_init_amdappsdk" -> _init_amdappsdk(m, c.arg)
      [] c.op = "_init_phi" -> _init_phi(m)
      [] c.op = "_init_tsan" -> _init_tsan(m)
      [] c.op = "_init_atlas" -> _init_atlas(m)
      [] c.op = "_init_mpi" -> _init_mpi(m)

\* C13: any two different accelerator/auxiliary handlers commute: from the
\* configuration and environment a job has reached, the handler of this
\* step followed by another one leaves the same attributes, build
\* variables and environment, and raises the same errors, as the other
\* one followed by the handler of this step.
C13_AuxiliaryOrderInsensitive ==
    [][(calls' = calls + 1 /\ last'.op \in AuxiliaryOps) =>
          \A c \in AuxiliaryCalls :
              c.op # last'.op =>
                  LET step == [op |-> last'.op, arg |-> last'.arg]
                      after == Auxiliary(Machine(self', env', imported',
                                                 queries', assigned'), c)
                      before == Auxiliary(Now, c)
                      swapped == Auxiliary(before.m, step)
                  IN  /\ after.m.self = swapped.m.self
                      /\ after.m.env = swapped.m.env
                      /\ after.raised = before.raised
                      /\ last'.raised = swapped.raised]_vars

\* On Linux, after selectGCC("7"), the CUDA root has been set and then MPI
\* configured, which recorded the host compiler.
C13_Witness ==
    /\ system = LINUX
    /\ calls = 3
    /\ last = [op |-> "_init_mpi", arg |-> None, raised |-> NoError]
    /\ self.compiler = GCC
    /\ self.cuda_root = <<"/opt/cuda_", "9", ".", "0">>
    /\ self.cuda_host_compiler =
           <<"/", "opt", "/", "gcc-", "7", "/", "bin", "/", "gcc-", "7">>
    /\ env["OMPI_CC"] = <<"gcc-", "7">>

\* C14: a call ensure_dir_exists(path, ensure_empty) on the real executor
\* that returns leaves path a directory; on an existing directory it
\* returns, with ensure_empty leaving the directory empty and everything
\* outside it as it was, and without ensure_empty leaving the whole file
\* system as it was; on an absent path below directories it returns too.
C14_RealEnsureDirectory ==
    [][(calls' = calls + 1 /\ ~dry_run /\ last'.op = "ensure_dir_exists") =>
          LET path == last'.arg[1]
              ensure_empty == last'.arg[2]
          IN  /\ last'.raised = NoError => fs'[path].kind = "dir"
              /\ last'.raised # NoError => fs' = fs
              /\ fs[path].kind = "dir" =>
                     /\ last'.raised = NoError
                     /\ IF ensure_empty
                        THEN /\ ContentsOf(fs', path) = {}
                             /\ \A q \in FsPaths : ~Under(path, q) => fs'[q] = fs[q]
                        ELSE fs' = fs
              /\ (/\ fs[path].kind = "absent"
                  /\ \A q \in FsPaths : Under(q, path) => fs[q].kind # "file")
                     => last'.raised = NoError]_vars

\* The real executor has emptied the existing directory build/sub, and
\* the file beside it is still there.
C14_Witness ==
    /\ ~dry_run
    /\ last = [op |-> "ensure_dir_exists", arg |-> <<<<"build", "sub">>, TRUE>>,
               raised |-> NoError]
    /\ fs[<<"build", "sub">>] = Dir
    /\ fs[<<"build", "sub", "old">>] = Absent
    /\ fs[<<"build", "old">>] = File(OldText)

\* C15: on the dry-run executor no call of ensure_dir_exists (with either
\* flag) or write_file changes the file system or raises;
\* ensure_dir_exists prints nothing, and write_file prints the line
\* "write: <path> <<<" and then the contents followed by "<<<".
C15_DryRunLeavesFilesystem ==
    [][(calls' = calls + 1 /\ dry_run) =>
          /\ fs' = fs
          /\ last'.raised = NoError
          /\ last'.op = "ensure_dir_exists" => console' = console
          /\ last'.op = "write_file" =>
                 LET path == last'.arg[1]
                     contents == last'.arg[2]
                 IN  /\ Len(console') = Len(console) + 2
                     /\ SubSeq(console', 1, Len(console)) = console
                     /\ console'[Len(console) + 1] =
                            <<"write: ">> \o PathString(path) \o <<" <<<">>
                     /\ console'[Len(console) + 2] = contents \o <<"<<<">>]_vars

\* The dry-run executor has been asked to empty build and then to write
\* build/old: the old file is still there and the console holds the two
\* lines.
C15_Witness ==
    /\ dry_run
    /\ calls = 2
    /\ last = [op |-> "write_file", arg |-> <<<<"build", "old">>, <<"new", "\n">>>>,
               raised |-> NoError]
    /\ fs[<<"build", "old">>] = File(OldText)
    /\ console = <<<<"write: ", "build", "/", "old", " <<<">>,
                   <<"new", "\n", "<<<">>>>

\* C16 as stated: requestMinimumCMake called with a version that has a
\* non-numeric component raises ConfigurationError and leaves cmakeVersion,
\* cmakeCommandPath and ctestCommandPath as they were.
C16_MalformedIsConfigurationError ==
    [][(/\ calls' = calls + 1
        /\ last'.op = "_set_cmake_minimum_version"
        /\ Truthy(last'.arg)
        /\ Malformed(last'.arg)) =>
          /\ last'.raised = ConfigurationError
          /\ self'.cmake_version = self.cmake_version
          /\ self'.cmake_command = self.cmake_command
          /\ self'.ctest_command = self.ctest_command]_vars

MpiWrappers == {<<"mpicc">>, <<"mpic++">>}

\* C17 as stated: whenever the MPI handler completes, in any sequence of
\* handler calls, the compilers are "mpicc" and "mpic++", OMPI_CC and
\* OMPI_CXX do not hold a wrapper name but the compilers that were active
\* before the call, and compilerFamily and compilerVersion are as before.
C17_MpiKeepsUnderlyingCompilers ==
    [][(/\ calls' = calls + 1
        /\ last'.op = "_init_mpi"
        /\ last'.raised = NoError) =>
          /\ self'.c_compiler = <<"mpicc">>
          /\ self'.cxx_compiler = <<"mpic++">>
          /\ env'["OMPI_CC"] \notin MpiWrappers
          /\ env'["OMPI_CXX"] \notin MpiWrappers
          /\ self.c_compiler \notin MpiWrappers \cup {None} =>
                 env'["OMPI_CC"] = self.c_compiler
          /\ self.cxx_compiler \notin MpiWrappers \cup {None} =>
                 env'["OMPI_CXX"] = self.cxx_compiler
          /\ self'.compiler = self.compiler
          /\ self'.compiler_version = self.compiler_version]_vars

\* The C compiler of the selected family, which an MPI wrapper wraps.
UnderlyingCCompiler(s) ==
    IF s.compiler = GCC THEN <<"gcc-">> \o s.compiler_version ELSE <<"icc">>

\* C18 as stated: the MPI handler on a non-Windows configuration whose
\* family is GCC or Intel records the path the node resolves for the
\* underlying C compiler as cudaHostCompilerPath; if the node does not
\* locate that compiler it raises ConfigurationError and leaves attributes
\* and environment as they were; on Windows or with another family it
\* leaves cudaHostCompilerPath as it was and makes no look-up.
C18_MpiRecordsHostCompiler ==
    [][(calls' = calls + 1 /\ last'.op = "_init_mpi") =>
          IF system # WINDOWS /\ self.compiler \in {GCC, INTEL}
          THEN LET underlying == UnderlyingCCompiler(self)
               IN  IF underlying \in missing
                   THEN /\ last'.raised = ConfigurationError
                        /\ self' = self
                        /\ env' = env
                   ELSE /\ last'.raised = NoError
                        /\ self'.cuda_host_compiler =
                               <<"/", "opt", "/">> \o underlying
                                   \o <<"/", "bin", "/">> \o underlying
          ELSE /\ self'.cuda_host_compiler = self.cuda_host_compiler
               /\ queries' = queries]_vars

\* The versions of a set, lowest first.
InAscendingOrder(S) ==
    CHOOSE q \in [1..Cardinality(S) -> S] :
        /\ \A x \in S : \E i \in 1..Cardinality(S) : q[i] = x
        /\ Ascending(q)

\* C19: when requestMinimumCMake(v) finds the active cmake older than v,
\* it activates every installed version not older than v, lowest first,
\* and ends on the highest of them with that installation's cmake and
\* ctest; when no installed version satisfies v it returns without error
\* and keeps the active cmake's version and the paths as they were.
C19_LastMatchWins ==
    [][(FirstRequest /\ ComponentwiseOlder(cmake_active, last'.arg)) =>
          LET matches == Satisfying(last'.arg)
              ordered == InAscendingOrder(matches)
          IN  /\ last'.raised = NoError
              /\ assigned' = Append(assigned, cmake_active) \o ordered
              /\ IF matches = {}
                 THEN /\ self'.cmake_version = cmake_active
                      /\ self'.cmake_command = self.cmake_command
                      /\ self'.ctest_command = self.ctest_command
                 ELSE LET highest == ordered[Len(ordered)]
                      IN  /\ \A w \in matches : ~ComponentwiseOlder(highest, w)
                          /\ self'.cmake_version = highest
                          /\ self'.cmake_command = BinaryOf(highest, "cmake")
                          /\ self'.ctest_command = BinaryOf(highest, "ctest")]_vars

\* With the active cmake at 3.5 and 3.10, 3.12 and 3.14 installed, a
\* request for 3.10 has activated the three in turn and ended on 3.14.
C19_Witness ==
    /\ cmake_active = v3_5
    /\ cmake_dirs = AllInstalled
    /\ last = [op |-> "_set_cmake_minimum_version", arg |-> v3_10,
               raised |-> NoError]
    /\ assigned = <<v3_5, v3_10, v3_12, v3_14>>
    /\ self.cmake_version = v3_14
    /\ self.cmake_command =
           Join(Join(Join(CMakeBaseDir, Dir_3_14), <<"bin">>), <<"cmake">>)

\* C20: requestMinimumCMake called with no version, or with a cmakeVersion
\* already recorded (whatever version is requested, a newer one included),
\* returns without error, asks nothing of the node (no cmake binary
\* queried, no directory listed) and leaves every attribute, cmakeVersion
\* and the cmake and ctest paths among them, as it was.
C20_MinimumNoOpOnceRecorded ==
    [][(/\ calls' = calls + 1
        /\ last'.op = "_set_cmake_minimum_version"
        /\ (~Truthy(last'.arg) \/ Truthy(self.cmake_version))) =>
          /\ last'.raised = NoError
          /\ queries' = queries
          /\ assigned' = assigned
          /\ self' = self
          /\ env' = env]_vars

\* With 3.5 recorded by the direct handler and 3.12 installed, a request
\* for 3.12 has returned without a look-up.
C20_Witness ==
    /\ last = [op |-> "_set_cmake_minimum_version", arg |-> v3_12,
               raised |-> NoError]
    /\ calls = 2
    /\ cmake_dirs = AllInstalled
    /\ self.cmake_version = v3_5
    /\ assigned = <<v3_5>>
    /\ queries = <<>>

\* C21: in every reachable state cmakeCommandPath and ctestCommandPath are
\* either the bare names "cmake" and "ctest", or the files cmake and ctest
\* of one bin directory of one installation directory of the CMake base
\* directory, named "cmake-<v>" or "<v>" with v the recorded cmakeVersion.
C21_CMakeAndCTestPaired ==
    IF self.cmake_command = <<"cmake">> \/ self.ctest_command = <<"ctest">>
    THEN self.cmake_command = <<"cmake">> /\ self.ctest_command = <<"ctest">>
    ELSE LET bin == Dirname(self.cmake_command)
             installation == Dirname(bin)
             name == SubSeq(installation, Len(CMakeBaseDir) + 2,
                            Len(installation))
         IN  /\ self.cmake_command = bin \o <<PathSep, "cmake">>
             /\ self.ctest_command = bin \o <<PathSep, "ctest">>
             /\ bin = installation \o <<PathSep, "bin">>
             /\ installation = CMakeBaseDir \o <<PathSep>> \o name
             /\ name \in {self.cmake_version,
                          <<"cmake", "-">> \o self.cmake_version}
             /\ VersionOfDir(name) = self.cmake_version

\* On a node with cmake-3.12 installed and no 3.14, a request for 3.10
\* has ended on the installation cmake-3.12.
C21_Witness ==
    /\ system = LINUX
    /\ calls = 1
    /\ last = [op |-> "_set_cmake_minimum_version", arg |-> v3_10,
               raised |-> NoError]
    /\ cmake_dirs[Dir_3_14] = "absent"
    /\ self.cmake_version = v3_12
    /\ self.cmake_command =
           <<"/", "opt", "/", "cmake", "/", "cmake", "-", "3", ".", "1", "2",
             "/", "bin", "/", "cmake">>
    /\ self.ctest_command =
           <<"/", "opt", "/", "cmake", "/", "cmake", "-", "3", ".", "1", "2",
             "/", "bin", "/", "ctest">>

\* C22 as stated: a handler call that raises ConfigurationError leaves
\* every attribute (family, version, compiler names, build variables) and
\* the environment as they were and has run no vendor script; and on
\* Windows selectIntel is rejected when the only call before it is a
\* selectMSVC that failed.
C22_ConfigurationErrorChangesNothing ==
    [][calls' = calls + 1 =>
          /\ last'.raised = ConfigurationError =>
                 /\ self' = self
                 /\ env' = env
                 /\ imported' = imported
          /\ (/\ system = WINDOWS
              /\ calls = 1
              /\ last.op = "_init_msvc"
              /\ last.raised = ConfigurationError
              /\ last'.op = "_init_icc") =>
                 last'.raised = ConfigurationError]_vars

====
